---- MODULE Spec2Model ----
(***************************************************************************)
(* Ciena EDFA serial command codec (src/edfa.py): the CRC, the request     *)
(* frame builder and the response decoders of class EDFACommand.           *)
(*                                                                         *)
(* A controller object holds DEVICE_ADDRESS.  Its methods are called one   *)
(* at a time by a caller; each call is one action that records the call's  *)
(* arguments (call) and what the method produced (ret).  The decoders      *)
(* print what they decode and return None: ret.fields is the sequence of   *)
(* values they print, ret.status is the branch they left by.               *)
(***************************************************************************)
EXTENDS Integers, Sequences, FiniteSets, TLC

VARIABLES DEVICE_ADDRESS, pc, call, ret

\* The serial session of a controller: the port self.ser, the transport
\* calls of the invocations not yet left (trace), what the device still has to answer
\* (device), the position of each caller inside an exchange (thr), the
\* position of the owner of the controller around its with block (life) and
\* whether a second thread of the caller uses the controller (concurrent).
VARIABLES ser, trace, device, thr, life, concurrent

\* The oscilloscope edge-capture loop (src/test.py, src/matplot.py,
\* src/not important/csv.py): its local variables and the samples it has
\* looked at so far.
VARIABLES scope

codecVars == <<DEVICE_ADDRESS, pc, call, ret>>
ioVars == <<ser, trace, device, thr, life, concurrent>>
vars == <<DEVICE_ADDRESS, pc, call, ret, ser, trace, device, thr, life, concurrent, scope>>

(***************************************************************************)
(* Bounds of the model.                                                    *)
(***************************************************************************)
\* longest argument list handed to _build_frame
MaxArgs == 3
\* longest generic response buffer handed to a decoder
MaxRespLen == 36

Byte == 0..255

(***************************************************************************)
(* Bit arithmetic on naturals.                                             *)
(***************************************************************************)
RECURSIVE Xor(_, _)
Xor(a, b) ==
    IF a = 0 THEN b
    ELSE IF b = 0 THEN a
    ELSE (((a % 2) + (b % 2)) % 2) + 2 * Xor(a \div 2, b \div 2)

RECURSIVE Pow2(_)
Pow2(n) == IF n = 0 THEN 1 ELSE 2 * Pow2(n - 1)

\* bit n of x (x & (1 << n)) != 0
Bit(x, n) == (x \div Pow2(n)) % 2 = 1

(***************************************************************************)
(* crc16 = crcmod.mkCrcFun(0x11021, initCrc=0xFFFF, rev=False): crcmod's   *)
(* table-driven, non-reflected 16-bit CRC, xorOut = 0.                     *)
(***************************************************************************)
CrcPoly == 69665     \* 0x11021
CrcInit == 65535     \* 0xFFFF
CrcMask == 65536     \* 2^16, the width taken from the polynomial's degree

\* crcmod _bytecrc: one table entry, eight shift/xor steps on the 16-bit register
RECURSIVE ByteCrc(_, _)
ByteCrc(crc, n) ==
    IF n = 0 THEN crc
    ELSE ByteCrc(IF crc >= CrcMask \div 2
                 THEN Xor((crc * 2) % CrcMask, CrcPoly % CrcMask)
                 ELSE (crc * 2) % CrcMask,
                 n - 1)

\* crcmod _mkTable (rev=False): entry i is the CRC of the byte i in the top bits
CrcTable == [i \in Byte |-> ByteCrc(i * 256, 8)]

\* crcmod _crc16: the register is masked to 16 bits, then per byte
\* crc = table[x ^ (crc >> 8)] ^ ((crc << 8) & 0xFF00)
RECURSIVE CrcUpdate(_, _, _)
CrcUpdate(data, i, crc) ==
    IF crc >= CrcMask THEN CrcUpdate(data, i, crc % CrcMask)
    ELSE IF i > Len(data) THEN crc
    ELSE CrcUpdate(data, i + 1,
                   Xor(CrcTable[Xor(data[i], crc \div 256)], (crc * 256) % CrcMask))

\* the CRC seeded with zero (the XMODEM variant) instead of initCrc
crc16_zero_seed(data) == CrcUpdate(data, 1, 0)

crc16(data) == CrcUpdate(data, 1, CrcInit)

\* struct.pack('>H', crc): two bytes, most significant first
PackBigEndianH(v) == <<v \div 256, v % 256>>

(***************************************************************************)
(* EDFACommand._build_frame                                                *)
(***************************************************************************)
SYNC_BYTE == 104     \* 0x68

\* the frame with its CRC packed least significant byte first ('<H')
build_frame_little_endian(address, cmd_id, args) ==
    LET frame_bytes == <<SYNC_BYTE>> \o address \o <<SYNC_BYTE, cmd_id>> \o args
        crc == crc16(frame_bytes)
    IN  frame_bytes \o <<crc % 256, crc \div 256>>

\* the frame with a length byte put between the command id and the arguments
build_frame_with_length(address, cmd_id, args) ==
    LET frame_bytes == <<SYNC_BYTE>> \o address \o <<SYNC_BYTE, cmd_id, Len(args)>> \o args
    IN  frame_bytes \o PackBigEndianH(crc16(frame_bytes))

build_frame(address, cmd_id, args) ==
    LET frame_bytes == <<SYNC_BYTE>> \o address \o <<SYNC_BYTE, cmd_id>> \o args
    IN  frame_bytes \o PackBigEndianH(crc16(frame_bytes))

(***************************************************************************)
(* Python sequence and struct operations used by the decoders.             *)
(***************************************************************************)
Min(a, b) == IF a < b THEN a ELSE b
Max(a, b) == IF a > b THEN a ELSE b

\* s[start:stop] on bytes: negative positions count from the end, both are
\* clipped to the buffer, an empty range gives b''
PySlice(s, start, stop) ==
    LET n == Len(s)
        a == IF start < 0 THEN Max(n + start, 0) ELSE Min(start, n)
        b == IF stop < 0 THEN Max(n + stop, 0) ELSE Min(stop, n)
    IN  IF a < b THEN SubSeq(s, a + 1, b) ELSE <<>>

\* s[i] raises IndexError unless 0 <= i < len(s) (no negative index is used)
IndexOk(s, i) == 0 <= i /\ i < Len(s)
PyIndex(s, i) == s[i + 1]

\* struct.unpack raises struct.error unless the buffer has exactly the
\* format's size
UnpackOk(size, data) == Len(data) = size

\* struct.unpack('>h', b)[0]: big-endian two's-complement signed 16-bit
UnpackBigEndian_h(b) ==
    LET u == b[1] * 256 + b[2]
    IN  IF u >= 32768 THEN u - 65536 ELSE u

\* an unsigned 32-bit big-endian word (struct 'I', int.from_bytes(b, 'big')),
\* kept as its two 16-bit halves <<high, low>>: the value is high * 2^16 + low
UnpackBigEndian_I(b) == <<b[1] * 256 + b[2], b[3] * 256 + b[4]>>

\* int.from_bytes(b, 'big') of at most four bytes, as <<high, low>>: a buffer
\* shorter than four bytes gives the low-order bytes of the word
IntFromBytesBig(b) ==
    LET pad == 4 - Len(b)
        w == [k \in 1..4 |-> IF k <= pad THEN 0 ELSE b[k - pad]]
    IN  <<w[1] * 256 + w[2], w[3] * 256 + w[4]>>

\* word & (1 << n) != 0, for a 32-bit word kept as <<high, low>>
WordBit(w, n) == IF n >= 16 THEN Bit(w[1], n - 16) ELSE Bit(w[2], n)

\* the text of f"{val/100:.2f}": sign, whole part and two decimals
Hundredths(val) ==
    LET m == IF val < 0 THEN 0 - val ELSE val
    IN  [neg |-> val < 0, whole |-> m \div 100, cents |-> m % 100]

(***************************************************************************)
(* The response decoders.  Each returns [status, fields]:                  *)
(*   "too_short"  the 'Response too short to parse' branch                 *)
(*   "not_enough" the 'Not enough data for all fields' branch              *)
(*   "no_amps"    the alarm decoder's 'No amplifier alarm data' branch     *)
(*   "ok"         the fields were decoded and printed                      *)
(*   "raised"     the call ended by an exception (IndexError, struct.error)*)
(***************************************************************************)
Failure(why) == [status |-> why, fields |-> <<>>]
Decoded(f) == [status |-> "ok", fields |-> f]

\* the offset every decoder slices the payload at: data = response[7:-2]
PayloadOf(response) == PySlice(response, 7, -2)

\* minimum response lengths tested first by the decoders
PumpMinResponse == 33
ModeMinResponse == 12
ModuleStatusMinResponse == 10
PowerMinResponse == 12
AlarmMinResponse == 18
VoaMinResponse == 12

\* minimum payload lengths tested second by the decoders
PumpMinData == 24
ModeMinData == 2
ModuleStatusMinData == 1
PowerMinData == 2
AlarmMinData == 8
VoaMinData == 3

\* struct.calcsize('>hhhhhhhhIhh')
PumpFormatSize == 24

parse_pump_laser_status_response(response) ==
    IF Len(response) < PumpMinResponse THEN Failure("too_short")
    ELSE LET data == PayloadOf(response) IN
         IF Len(data) < PumpMinData THEN Failure("not_enough")
         ELSE IF ~UnpackOk(PumpFormatSize, data) THEN Failure("raised")
         ELSE Decoded(
                [k \in 1..8 |-> UnpackBigEndian_h(SubSeq(data, 2 * k - 1, 2 * k))]
                \o <<UnpackBigEndian_I(SubSeq(data, 17, 20))>>
                \o <<UnpackBigEndian_h(SubSeq(data, 21, 22)),
                     UnpackBigEndian_h(SubSeq(data, 23, 24))>>)

mode_map ==
    [m \in 1..10 |->
        CASE m = 1 -> "Disable"
          [] m = 2 -> "Manual"
          [] m = 3 -> "Constant Gain"
          [] m = 4 -> "Constant Power"
          [] m = 5 -> "Clamping"
          [] m = 6 -> "ASE Enable Const Output Power"
          [] m = 7 -> "ASE Enable Const Drive Current"
          [] m = 8 -> "ASE Safe"
          [] m = 9 -> "AFC Const Gain"
          [] m = 10 -> "AFC Const Power"]

\* mode_map.get(mode, f'Unknown ({mode})')
ModeText(mode) ==
    IF mode \in DOMAIN mode_map THEN <<mode_map[mode]>> ELSE <<"Unknown", mode>>

parse_mode_status_response(response) ==
    IF Len(response) < ModeMinResponse THEN Failure("too_short")
    ELSE LET data == PayloadOf(response) IN
         IF Len(data) < ModeMinData THEN Failure("not_enough")
         ELSE IF ~(IndexOk(data, 0) /\ IndexOk(data, 1)) THEN Failure("raised")
         ELSE Decoded(<<[amp_index |-> PyIndex(data, 0),
                         mode |-> ModeText(PyIndex(data, 1))]>>)

\* the lines printed for one status byte
StatusRecord(status) ==
    [raw |-> status,
     disabled |-> Bit(status, 0),
     apr |-> Bit(status, 1),
     gain_limited |-> Bit(status, 2),
     power_clamping |-> Bit(status, 3),
     reserved |-> status \div 16]

\* the module status decoder without its two length tests
parse_module_status_unguarded(response) ==
    LET data == PayloadOf(response) IN
    IF ~IndexOk(data, 0) THEN Failure("raised")
    ELSE Decoded(<<StatusRecord(PyIndex(data, 0))>>)

parse_module_status_response(response) ==
    IF Len(response) < ModuleStatusMinResponse THEN Failure("too_short")
    ELSE LET data == PayloadOf(response) IN
         IF Len(data) < ModuleStatusMinData THEN Failure("not_enough")
         ELSE IF ~IndexOk(data, 0) THEN Failure("raised")
         ELSE Decoded(<<StatusRecord(PyIndex(data, 0))>>)

\* one line of the power loop: val and its f"{val/100:.2f}" text
PowerReading(data, i) ==
    LET val == UnpackBigEndian_h(PySlice(data, 2 * i, 2 * i + 2))
    IN  [val |-> val, dbm |-> Hundredths(val)]

parse_power_response(response) ==
    IF Len(response) < PowerMinResponse THEN Failure("too_short")
    ELSE LET data == PayloadOf(response) IN
         IF Len(data) < PowerMinData THEN Failure("not_enough")
         ELSE LET n == Len(data) \div 2 IN
              IF \E i \in 0..(n - 1) : ~UnpackOk(2, PySlice(data, 2 * i, 2 * i + 2))
              THEN Failure("raised")
              ELSE Decoded([k \in 1..n |-> PowerReading(data, k - 1)])

\* the 22 alarm names in list order (their abbreviations)
alarm_names ==
    <<"LOS-1", "HT", "LOP-1", "ILD", "TMP", "MTL", "MTH", "LOS-2", "LOP-2",
      "SHUTOFF", "ORL", "APR", "TEC", "SLD", "OOG", "VOA", "IOO", "DIS",
      "LOS-L", "MLOSS", "FLG1", "FLG2">>

\* the names printed for one 32-bit alarm word, in list order:
\* for i, name in enumerate(alarm_names): if word & (1 << (31 - i))
RECURSIVE AlarmLines(_, _)
AlarmLines(word, i) ==
    IF i >= Len(alarm_names) THEN <<>>
    ELSE (IF WordBit(word, 31 - i) THEN <<alarm_names[i + 1]>> ELSE <<>>)
         \o AlarmLines(word, i + 1)

\* one pass of the per-amplifier loop
AlarmRecord(data, amp) ==
    LET base == amp * 8
        current == IntFromBytesBig(PySlice(data, base, base + 4))
        latched == IntFromBytesBig(PySlice(data, base + 4, base + 8))
    IN  [current |-> AlarmLines(current, 0), latched |-> AlarmLines(latched, 0)]

parse_alarm_status_response(response) ==
    IF Len(response) < AlarmMinResponse THEN Failure("too_short")
    ELSE LET data == PayloadOf(response) IN
         IF Len(data) < AlarmMinData THEN Failure("not_enough")
         ELSE LET n_amps == Len(data) \div 8 IN
              IF n_amps = 0 THEN Failure("no_amps")
              ELSE Decoded([k \in 1..n_amps |-> AlarmRecord(data, k - 1)])

voa_mode_map ==
    [m \in 1..4 |->
        CASE m = 1 -> "Disable (Opaque)"
          [] m = 2 -> "Constant attenuation"
          [] m = 3 -> "Constant output power"
          [] m = 4 -> "Fast attenuation"]

\* voa_mode_map.get(voa_mode, f'Unknown ({voa_mode})')
VoaModeText(m) ==
    IF m \in DOMAIN voa_mode_map THEN <<voa_mode_map[m]>> ELSE <<"Unknown", m>>

\* one pass of the VOA loop
VoaRecord(data, i) ==
    LET att == UnpackBigEndian_h(PySlice(data, 3 * i + 1, 3 * i + 3))
    IN  [mode |-> VoaModeText(PyIndex(data, 3 * i)), att |-> att, text |-> Hundredths(att)]

parse_voa_mode_response(response) ==
    IF Len(response) < VoaMinResponse THEN Failure("too_short")
    ELSE LET data == PayloadOf(response) IN
         IF Len(data) < VoaMinData THEN Failure("not_enough")
         ELSE LET n == Len(data) \div 3 IN
              IF \E i \in 0..(n - 1) :
                    \/ ~IndexOk(data, 3 * i)
                    \/ ~UnpackOk(2, PySlice(data, 3 * i + 1, 3 * i + 3))
              THEN Failure("raised")
              ELSE Decoded([k \in 1..n |-> VoaRecord(data, k - 1)])

(***************************************************************************)
(* Inputs.                                                                 *)
(***************************************************************************)
\* device addresses given at construction: the default [0x00, 0x03] and another
Addresses == {<<0, 3>>, <<255, 104>>}

\* command ids used by the get operations, and two edge values
CmdIds == {48, 49, 58, 0, 255}

ArgBytes == {0, 1, 80, 255}

RECURSIVE SeqsUpTo(_, _)
SeqsUpTo(S, n) ==
    IF n = 0 THEN {<<>>}
    ELSE LET shorter == SeqsUpTo(S, n - 1)
         IN  shorter \cup {Append(s, x) : s \in {t \in shorter : Len(t) = n - 1}, x \in S}

ArgLists == SeqsUpTo(ArgBytes, MaxArgs)

\* the seven bytes a response starts with, which no decoder looks at
ResponseHeader == <<SYNC_BYTE, 0, 3, SYNC_BYTE, 49, 0, 0>>

\* a body followed by its crc16, big-endian: the trailer of a sound response
WithCrc(body) == body \o PackBigEndianH(crc16(body))

\* a body followed by two bytes that are not its crc16
WithBadCrc(body) == body \o PackBigEndianH((crc16(body) + 1) % 65536)

\* header, payload and either trailer
Framed(payloads) ==
    {WithCrc(ResponseHeader \o p) : p \in payloads}
    \cup {WithBadCrc(ResponseHeader \o p) : p \in payloads}

\* fill patterns for buffers of any length: byte i is (mul * i + add) % 256
Patterns == {<<0, 0>>, <<1, 0>>, <<37, 255>>}
Fill(pat, n) == [i \in 1..n |-> (pat[1] * i + pat[2]) % 256]

\* buffers of every length 0..MaxRespLen, as read and with a sound trailer
GenericResponses ==
    {Fill(pat, n) : pat \in Patterns, n \in 0..MaxRespLen}
    \cup {WithCrc(Fill(pat, n)) : pat \in Patterns, n \in 0..(MaxRespLen - 2)}

\* mode responses: amplifier index, every mode code, with and without a
\* further payload byte
ModeResponses ==
    Framed({<<a, c>> \o pad : a \in {1, 2}, c \in Byte, pad \in {<<>>, <<0>>}})

\* module status responses: every status byte, alone and followed by the
\* status byte of a second amplifier
ModuleStatusResponses ==
    Framed({<<st>> \o pad : st \in Byte, pad \in {<<>>, <<241>>}})

\* power responses: one to two readings, and payloads with an odd byte left
PowerResponses ==
    Framed({<<hi, lo>> \o rest :
              hi \in {0, 1, 127, 128, 255}, lo \in {0, 100, 156, 255},
              rest \in {<<>>, <<7>>, <<255, 156>>, <<255, 156, 7>>}})

\* 32-bit alarm words: none, each single bit, all
AlarmWords ==
    {<<0, 0, 0, 0>>, <<255, 255, 255, 255>>}
    \cup {[k \in 1..4 |-> IF k = 4 - (bit \div 8) THEN Pow2(bit % 8) ELSE 0] : bit \in 0..31}

\* alarm responses: one (current, latched) pair, alone, with bytes left over,
\* and followed by a second pair
AlarmResponses ==
    Framed({cur \o lat \o rest :
              cur \in AlarmWords, lat \in {<<0, 0, 0, 0>>, <<128, 0, 4, 1>>},
              rest \in {<<>>, <<1>>, <<0, 32, 0, 0, 0, 0, 0, 0>>}})

\* VOA responses: one or two (mode, attenuation) triples, and payloads with
\* bytes left over
VoaResponses ==
    Framed({<<m, hi, lo>> \o rest :
              m \in {0, 1, 2, 3, 4, 5, 255}, hi \in {0, 255}, lo \in {5, 156},
              rest \in {<<>>, <<9>>, <<2, 255>>, <<2, 255, 156>>}})

\* pump laser responses: payloads of 22..26 bytes
PumpResponses ==
    Framed({Fill(pat, n) : pat \in Patterns, n \in 22..26})

\* the ASCII string "123456789", the check input of the CRC catalogues
CheckString == <<49, 50, 51, 52, 53, 54, 55, 56, 57>>

\* byte sequences handed to crc16
CrcInputs ==
    GenericResponses
    \cup {<<>>, CheckString}
    \cup {<<b>> : b \in Byte}
    \cup {<<b, 255 - b>> : b \in Byte}

NoCall == [op |-> "none", cmd_id |-> 0, args |-> <<>>, response |-> <<>>]
NoRet  == [status |-> "none", fields |-> <<>>]

(***************************************************************************)
(* State machine.                                                          *)
(***************************************************************************)
\* EDFACommand.__init__: the address is fixed at construction
\* a port nobody has opened, no thread, no capture: the state of the session
\* and of the capture loop while only the codec's pure methods are called
NoSession ==
    /\ ser = [is_open |-> FALSE, in_waiting |-> <<>>]
    /\ trace = <<>>
    /\ device = <<>>
    /\ thr = <<>>
    /\ life = [at |-> "none", calls |-> 0, closes |-> 0, raised |-> FALSE, given |-> <<>>]
    /\ concurrent = FALSE
NoCapture ==
    scope = [variant |-> "none", at |-> "none", triggered |-> FALSE,
             falling_edge_detected |-> FALSE, prev_v |-> 0, recording |-> <<>>, seen |-> <<>>]

Init ==
    /\ DEVICE_ADDRESS \in Addresses
    /\ pc = "idle"
    /\ call = NoCall
    /\ ret = NoRet
    /\ NoSession
    /\ NoCapture

\* a call of _build_frame(cmd_id, args)
BuildFrame ==
    /\ pc = "idle"
    /\ \E cmd_id \in CmdIds, args \in ArgLists :
         /\ call' = [NoCall EXCEPT !.op = "_build_frame", !.cmd_id = cmd_id, !.args = args]
         /\ ret' = [status |-> "ok", fields |-> build_frame(DEVICE_ADDRESS, cmd_id, args)]
    /\ pc' = "done"
    /\ UNCHANGED <<DEVICE_ADDRESS, ioVars, scope>>

\* a call of the module-level crc16(data)
ComputeCrc ==
    /\ pc = "idle"
    /\ \E data \in CrcInputs :
         /\ call' = [NoCall EXCEPT !.op = "crc16", !.response = data]
         /\ ret' = [status |-> "ok", fields |-> <<crc16(data)>>]
    /\ pc' = "done"
    /\ UNCHANGED <<DEVICE_ADDRESS, ioVars, scope>>

\* a call of one of the six decoders on a response buffer
ParsePumpLaserStatus ==
    /\ pc = "idle"
    /\ \E response \in GenericResponses \cup PumpResponses :
         /\ call' = [NoCall EXCEPT !.op = "parse_pump_laser_status_response",
                                   !.response = response]
         /\ ret' = parse_pump_laser_status_response(response)
    /\ pc' = "done"
    /\ UNCHANGED <<DEVICE_ADDRESS, ioVars, scope>>

ParseModeStatus ==
    /\ pc = "idle"
    /\ \E response \in GenericResponses \cup ModeResponses :
         /\ call' = [NoCall EXCEPT !.op = "parse_mode_status_response",
                                   !.response = response]
         /\ ret' = parse_mode_status_response(response)
    /\ pc' = "done"
    /\ UNCHANGED <<DEVICE_ADDRESS, ioVars, scope>>

ParseModuleStatus ==
    /\ pc = "idle"
    /\ \E response \in GenericResponses \cup ModuleStatusResponses :
         /\ call' = [NoCall EXCEPT !.op = "parse_module_status_response",
                                   !.response = response]
         /\ ret' = parse_module_status_response(response)
    /\ pc' = "done"
    /\ UNCHANGED <<DEVICE_ADDRESS, ioVars, scope>>

ParsePower ==
    /\ pc = "idle"
    /\ \E response \in GenericResponses \cup PowerResponses :
         /\ call' = [NoCall EXCEPT !.op = "parse_power_response",
                                   !.response = response]
         /\ ret' = parse_power_response(response)
    /\ pc' = "done"
    /\ UNCHANGED <<DEVICE_ADDRESS, ioVars, scope>>

ParseAlarmStatus ==
    /\ pc = "idle"
    /\ \E response \in GenericResponses \cup AlarmResponses :
         /\ call' = [NoCall EXCEPT !.op = "parse_alarm_status_response",
                                   !.response = response]
         /\ ret' = parse_alarm_status_response(response)
    /\ pc' = "done"
    /\ UNCHANGED <<DEVICE_ADDRESS, ioVars, scope>>

ParseVoaMode ==
    /\ pc = "idle"
    /\ \E response \in GenericResponses \cup VoaResponses :
         /\ call' = [NoCall EXCEPT !.op = "parse_voa_mode_response",
                                   !.response = response]
         /\ ret' = parse_voa_mode_response(response)
    /\ pc' = "done"
    /\ UNCHANGED <<DEVICE_ADDRESS, ioVars, scope>>

\* the caller takes the result; the codec keeps nothing of the call
Return ==
    /\ pc = "done"
    /\ pc' = "idle"
    /\ call' = NoCall
    /\ ret' = NoRet
    /\ UNCHANGED <<DEVICE_ADDRESS, ioVars, scope>>

Next ==
    \/ ComputeCrc
    \/ BuildFrame
    \/ ParsePumpLaserStatus
    \/ ParseModeStatus
    \/ ParseModuleStatus
    \/ ParsePower
    \/ ParseAlarmStatus
    \/ ParseVoaMode
    \/ Return

Spec == Init /\ [][Next]_vars

(***************************************************************************)
(* The serial session: exchanges of a controller over self.ser.            *)
(***************************************************************************)
\* most invocations the callers of one session make altogether
MaxCalls == 2
\* most calls of close() in one session, __exit__'s included
MaxCloses == 2

\* the thread that owns the controller (1) and a second thread of the caller
Callers == {1, 2}

\* expected_response_size = None
NoSize == -1

\* default read sizes of send_command and of the structured operations
SendCommandDefaultSize == 64
PumpDefaultSize == 31
ModeDefaultSize == 12
ModuleStatusDefaultSize == 10

\* A str is a sequence of one-character strings.  bytes.fromhex reads two
\* hex digits per byte, in either case.
HexDigits == <<"0", "1", "2", "3", "4", "5", "6", "7", "8", "9", "a", "b", "c", "d", "e", "f">>
HexDigitsUpper == <<"0", "1", "2", "3", "4", "5", "6", "7", "8", "9", "A", "B", "C", "D", "E", "F">>
HexVal(ch) ==
    (CHOOSE i \in 1..16 : HexDigits[i] = ch \/ HexDigitsUpper[i] = ch) - 1
str_replace_spaces(hexstr) == SelectSeq(hexstr, LAMBDA ch : ch # " ")
bytes_fromhex(hexstr) ==
    [i \in 1..(Len(hexstr) \div 2) |-> 16 * HexVal(hexstr[2 * i - 1]) + HexVal(hexstr[2 * i])]

\* the bytes send_raw_command writes for a hex string
raw_frame(hexstr) == bytes_fromhex(str_replace_spaces(hexstr))

gui_commands == {
    [key |-> <<"get_mode", 1, 1>>,
     hexstr |-> <<"6", "8", "0", "0", "0", "5", "6", "8", "3", "1", "0", "0", "5", "f", "0", "1", "0", "1", "9", "2", "1", "6">>],
    [key |-> <<"get_module_status", 1, 1>>,
     hexstr |-> <<"6", "8", "0", "0", "0", "5", "6", "8", "3", "0", "0", "0", "6", "0", "0", "1", "0", "1", "9", "2", "1", "6">>],
    [key |-> <<"get_module_status", 0, 1>>,
     hexstr |-> <<"6", "8", "0", "0", "0", "5", "6", "8", "3", "0", "0", "0", "6", "d", "0", "0", "0", "1", "9", "e", "1", "6">>],
    [key |-> <<"get_module_status", 2, 1>>,
     hexstr |-> <<"6", "8", "0", "0", "0", "5", "6", "8", "3", "0", "0", "0", "6", "f", "0", "2", "0", "1", "a", "2", "1", "6">>],
    [key |-> <<"get_module_status", 0, 2>>,
     hexstr |-> <<"6", "8", "0", "0", "0", "5", "6", "8", "3", "0", "0", "0", "7", "1", "0", "0", "0", "2", "a", "3", "1", "6">>],
    [key |-> <<"get_module_status", 1, 2>>,
     hexstr |-> <<"6", "8", "0", "0", "0", "5", "6", "8", "3", "0", "0", "0", "7", "2", "0", "1", "0", "2", "a", "5", "1", "6">>],
    [key |-> <<"get_module_status", 2, 2>>,
     hexstr |-> <<"6", "8", "0", "0", "0", "5", "6", "8", "3", "0", "0", "0", "7", "3", "0", "2", "0", "2", "a", "7", "1", "6">>],
    [key |-> <<"get_pump_laser_status", 1, 1>>,
     hexstr |-> <<"6", "8", "0", "0", "0", "5", "6", "8", "3", "a", "0", "0", "a", "1", "0", "1", "0", "1", "d", "d", "1", "6">>],
    [key |-> <<"get_pump_laser_status", 1, 2>>,
     hexstr |-> <<"6", "8", "0", "0", "0", "5", "6", "8", "3", "a", "0", "0", "a", "2", "0", "1", "0", "2", "d", "f", "1", "6">>],
    [key |-> <<"get_pump_laser_status", 1, 3>>,
     hexstr |-> <<"6", "8", "0", "0", "0", "5", "6", "8", "3", "a", "0", "0", "a", "3", "0", "1", "0", "3", "e", "1", "1", "6">>],
    [key |-> <<"get_pump_laser_status", 1, 4>>,
     hexstr |-> <<"6", "8", "0", "0", "0", "5", "6", "8", "3", "a", "0", "0", "9", "c", "0", "1", "0", "4", "d", "b", "1", "6">>],
    [key |-> <<"get_pump_laser_status", 1, 5>>,
     hexstr |-> <<"6", "8", "0", "0", "0", "5", "6", "8", "3", "a", "0", "0", "9", "d", "0", "1", "0", "5", "d", "d", "1", "6">>],
    [key |-> <<"get_pump_laser_status", 1, 6>>,
     hexstr |-> <<"6", "8", "0", "0", "0", "5", "6", "8", "3", "a", "0", "0", "9", "e", "0", "1", "0", "6", "d", "f", "1", "6">>],
    [key |-> <<"get_alarm_status", 1, 0>>,
     hexstr |-> <<"6", "8", "0", "0", "0", "4", "6", "8", "4", "0", "0", "0", "a", "7", "0", "1", "e", "8", "1", "6">>],
    [key |-> <<"get_alarm_status", 0, 0>>,
     hexstr |-> <<"6", "8", "0", "0", "0", "4", "6", "8", "4", "0", "0", "0", "a", "9", "0", "0", "e", "9", "1", "6">>],
    [key |-> <<"get_voa_mode", 0, 0>>,
     hexstr |-> <<"6", "8", "0", "0", "0", "4", "6", "8", "6", "2", "0", "0", "a", "b", "0", "0", "0", "d", "1", "6">>],
    [key |-> <<"get_voa_mode", 1, 0>>,
     hexstr |-> <<"6", "8", "0", "0", "0", "4", "6", "8", "6", "2", "0", "0", "a", "c", "0", "1", "0", "f", "1", "6">>]
}

\* a lookup that falls back to the first table entry for a key it lacks
gui_lookup_default(key) ==
    LET hits == {e \in gui_commands : e.key = key}
    IN  IF hits = {}
        THEN [found |-> TRUE,
              hexstr |-> (CHOOSE e \in gui_commands : e.key = <<"get_mode", 1, 1>>).hexstr]
        ELSE [found |-> TRUE, hexstr |-> (CHOOSE e \in hits : TRUE).hexstr]

\* key in gui_commands, and gui_commands[key]
gui_lookup(key) ==
    LET hits == {e \in gui_commands : e.key = key}
    IN  IF hits = {}
        THEN [found |-> FALSE, hexstr |-> <<>>]
        ELSE [found |-> TRUE, hexstr |-> (CHOOSE e \in hits : TRUE).hexstr]

\* get_module_status with its two arguments exchanged
get_module_status_swapped(amp_index, stage_index) ==
    [cmd_id |-> 48, args |-> <<stage_index, amp_index>>, size |-> ModuleStatusDefaultSize]

\* what the structured operations hand to send_command
get_module_status(amp_index, stage_index) ==
    [cmd_id |-> 48, args |-> <<amp_index, stage_index>>, size |-> ModuleStatusDefaultSize]
get_mode_status(amp_index, stage_index) ==
    [cmd_id |-> 49, args |-> <<amp_index, stage_index>>, size |-> ModeDefaultSize]
get_pump_laser_status(sub_addr, amp_index, laser_index) ==
    [cmd_id |-> 58, args |-> <<0, sub_addr, amp_index, laser_index>>, size |-> PumpDefaultSize]

\* a write that sends the frame a second time
ser_write_resend(log, by, frame) ==
    log \o <<[by |-> by, kind |-> "write", data |-> frame],
             [by |-> by, kind |-> "write", data |-> frame]>>

\* self.ser.write(frame) and self.ser.read(..), as entries of the record of
\* transport calls
ser_write(log, by, frame) == Append(log, [by |-> by, kind |-> "write", data |-> frame])
ser_read_call(log, by, data) == Append(log, [by |-> by, kind |-> "read", data |-> data])

\* The input buffer of the port holds the bytes the device has sent and no
\* read has taken, each with the caller whose request it answers.
BytesOf(buf) == [i \in 1..Len(buf) |-> buf[i].b]
\* read(size) takes up to size bytes of what has arrived by the timeout,
\* read_all() takes all of it
ser_read(buf, size) == SubSeq(buf, 1, Min(size, Len(buf)))
ser_read_all(buf) == buf

\* a send_command that hands back whatever the read gave
send_command_unchecked(response) ==
    [pc |-> "returned", error |-> "none", result |-> response]

\* the end of send_command: zero bytes raise TimeoutError
send_command_end(response) ==
    IF Len(response) = 0
    THEN [pc |-> "raised", error |-> "TimeoutError", result |-> <<>>]
    ELSE [pc |-> "returned", error |-> "none", result |-> response]
\* the end of send_raw_command: zero bytes are printed about and returned
send_raw_command_end(response) ==
    [pc |-> "returned", error |-> "none", result |-> response]

\* an __exit__ that releases the port only when the block ended normally
exit_unless_raised(port, raised) ==
    IF raised \/ ~port.is_open THEN port ELSE [port EXCEPT !.is_open = FALSE]

\* close(): closes the port if it is open
close(port) ==
    IF port.is_open THEN [port EXCEPT !.is_open = FALSE] ELSE port
\* __exit__(exc_type, exc_val, exc_tb): calls close() whatever ended the block
exit(port, raised) == close(port)

\* a caller between invocations
IdleThread ==
    [pc |-> "idle", op |-> "none", via |-> "none", size |-> 0, frame |-> <<>>,
     args |-> <<>>, mark |-> 0, full |-> FALSE, result |-> <<>>, error |-> "none", parsed |-> "none"]

\* a thread that walks away after the write, leaving the read to nobody
after_write_no_read(t, op, via, size, frame, mark) == t

\* a thread that has written its frame and sleeps before its read
after_write(t, op, via, size, frame, mark) ==
    [t EXCEPT !.pc = "written", !.op = op, !.via = via, !.size = size,
              !.frame = frame, !.mark = mark]

\* What the device sends for a request: a frame with the request's address
\* and command id and a payload of the length the command's decoder reads
\* (one status byte; amplifier, mode and a third byte, the 12 bytes that
\* get_mode_status reads; 24 pump laser bytes; one power reading for any
\* other command).
DevicePayloads(cmd) ==
    CASE cmd = 48 -> {<<13>>}
      [] cmd = 49 -> {<<1, 3, 0>>}
      [] cmd = 58 -> {Fill(<<1, 0>>, PumpMinData)}
      [] OTHER -> {<<0, 100>>}
DeviceReplies(frame) ==
    {WithCrc(<<frame[1], frame[2], frame[3], frame[4], frame[5], 0, 0>> \o p) :
        p \in DevicePayloads(frame[5])}

\* inputs of the exchanges
GetArgs == {<<1, 1>>, <<2, 255>>}
PumpArgs == {<<80, 1, 6>>}
SendCommandInputs ==
    {[cmd_id |-> 53, args |-> <<0, 1>>, size |-> SendCommandDefaultSize],
     [cmd_id |-> 98, args |-> <<>>, size |-> 2]}
\* 6800056835008c0001c216 as __main__ writes it, read with read_all(), and
\* spaced in upper case, read with read(12)
RawInputs ==
    {[size |-> NoSize, hexstr |->
      <<"6", "8", "0", "0", "0", "5", "6", "8", "3", "5", "0", "0", "8", "c", "0", "0", "0", "1", "c", "2", "1", "6">>],
     [size |-> 12, hexstr |->
      <<"6", "8", " ", "0", "0", " ", "0", "5", " ", "6", "8", " ", "3", "5", " ", "0", "0", " ", "8", "C", " ", "0", "0", " ", "0", "1", " ", "C", "2", " ", "1", "6">>]}
\* keys of the table (11-byte and 10-byte entries) and keys it lacks
GuiKeys ==
    {<<"get_module_status", 2, 1>>, <<"get_pump_laser_status", 1, 6>>, <<"get_alarm_status", 0, 0>>}
    \cup {<<"get_mode", 1, 2>>, <<"get_power", 1, 1>>}

\* the owner of a controller before it constructs one
NoLife == [at |-> "none", calls |-> 0, closes |-> 0, raised |-> FALSE, given |-> <<>>]

\* EDFACommand(port, device_address): the address is kept, the port is
\* opened by serial.Serial(port=...); one or two threads will use it
InitIO ==
    /\ \E address \in Addresses :
         /\ DEVICE_ADDRESS = address
         /\ life = [NoLife EXCEPT !.at = "constructed", !.given = address]
    /\ pc = "idle"
    /\ call = NoCall
    /\ ret = NoRet
    /\ ser = [is_open |-> TRUE, in_waiting |-> <<>>]
    /\ trace = <<>>
    /\ device = <<>>
    /\ thr = [c \in Callers |-> IdleThread]
    /\ concurrent = FALSE
    /\ NoCapture

\* a session with the default address, inside its with block, used by the
\* owner's thread alone or by a second thread of the caller as well
InitConcurrent ==
    /\ DEVICE_ADDRESS = <<0, 3>>
    /\ life = [NoLife EXCEPT !.at = "inside", !.given = <<0, 3>>]
    /\ pc = "idle"
    /\ call = NoCall
    /\ ret = NoRet
    /\ ser = [is_open |-> TRUE, in_waiting |-> <<>>]
    /\ trace = <<>>
    /\ device = <<>>
    /\ thr = [c \in Callers |-> IdleThread]
    /\ concurrent \in BOOLEAN
    /\ NoCapture

\* caller c may start an invocation: the owner is inside its with block,
\* the port is open, c is between invocations, and the second thread exists
MayCall(c) ==
    /\ life.at = "inside"
    /\ ser.is_open
    /\ life.calls < MaxCalls
    /\ c = 2 => concurrent
    /\ thr[c].pc = "idle"

\* The first half of send_command and of send_raw_command, up to the sleep:
\* the frame is written, the device has a request to answer.
WriteFrame(c, op, via, args, frame, size) ==
    /\ trace' = ser_write(trace, c, frame)
    /\ device' = Append(device, [by |-> c, frame |-> frame])
    /\ thr' = [thr EXCEPT ![c] =
                 [after_write(IdleThread, op, via, size, frame, Len(trace)) EXCEPT !.args = args]]
    /\ life' = [life EXCEPT !.calls = @ + 1]
    /\ UNCHANGED <<ser, concurrent, codecVars, scope>>

SendCommand(c) ==
    /\ MayCall(c)
    /\ \E in \in SendCommandInputs :
           WriteFrame(c, "send_command", "send_command", <<in.cmd_id>> \o in.args,
                      build_frame(DEVICE_ADDRESS, in.cmd_id, in.args), in.size)

GetModuleStatus(c) ==
    /\ MayCall(c)
    /\ \E a \in GetArgs :
           LET r == get_module_status(a[1], a[2])
           IN  WriteFrame(c, "get_module_status", "send_command", a,
                          build_frame(DEVICE_ADDRESS, r.cmd_id, r.args), r.size)

GetModeStatus(c) ==
    /\ MayCall(c)
    /\ \E a \in GetArgs :
           LET r == get_mode_status(a[1], a[2])
           IN  WriteFrame(c, "get_mode_status", "send_command", a,
                          build_frame(DEVICE_ADDRESS, r.cmd_id, r.args), r.size)

GetPumpLaserStatus(c) ==
    /\ MayCall(c)
    /\ \E a \in PumpArgs :
           LET r == get_pump_laser_status(a[1], a[2], a[3])
           IN  WriteFrame(c, "get_pump_laser_status", "send_command", a,
                          build_frame(DEVICE_ADDRESS, r.cmd_id, r.args), r.size)

SendRawCommand(c) ==
    /\ MayCall(c)
    /\ \E in \in RawInputs :
           WriteFrame(c, "send_raw_command", "send_raw_command", in.hexstr,
                      raw_frame(in.hexstr), in.size)

\* send_gui_raw_command: a key the table lacks raises ValueError before
\* send_raw_command is reached
SendGuiRawCommand(c) ==
    /\ MayCall(c)
    /\ \E key \in GuiKeys :
           LET e == gui_lookup(key)
           IN  IF e.found
               THEN WriteFrame(c, "send_gui_raw_command", "send_raw_command", key,
                               raw_frame(e.hexstr), NoSize)
               ELSE /\ thr' = [thr EXCEPT ![c] =
                                 [IdleThread EXCEPT !.pc = "raised", !.error = "ValueError",
                                                    !.op = "send_gui_raw_command",
                                                    !.args = key, !.mark = Len(trace)]]
                    /\ life' = [life EXCEPT !.calls = @ + 1]
                    /\ UNCHANGED <<ser, trace, device, concurrent, codecVars, scope>>

\* The second half of an exchange, after the sleep: one read of what has
\* arrived, then the method's end.
Read(c) ==
    /\ thr[c].pc = "written"
    /\ LET t == thr[c]
           data == IF t.size = NoSize THEN ser_read_all(ser.in_waiting)
                   ELSE ser_read(ser.in_waiting, t.size)
           end == IF t.via = "send_command" THEN send_command_end(data)
                  ELSE send_raw_command_end(data)
       IN  /\ ser' = [ser EXCEPT !.in_waiting = SubSeq(@, Len(data) + 1, Len(@))]
           /\ trace' = ser_read_call(trace, c, BytesOf(data))
           /\ thr' = [thr EXCEPT ![c] =
                        [t EXCEPT !.pc = end.pc, !.error = end.error, !.result = end.result,
                                  !.full = BytesOf(ser.in_waiting) \in DeviceReplies(t.frame)]]
    /\ UNCHANGED <<device, life, concurrent, codecVars, scope>>

\* the device answers its oldest unanswered request
DeviceAnswer ==
    /\ device # <<>>
    /\ ser.is_open
    /\ \E reply \in DeviceReplies(Head(device).frame) :
         ser' = [ser EXCEPT !.in_waiting =
                   @ \o [i \in 1..Len(reply) |-> [b |-> reply[i], for |-> Head(device).by]]]
    /\ device' = Tail(device)
    /\ UNCHANGED <<trace, thr, life, concurrent, codecVars, scope>>

\* the decoder that matches a structured operation
MatchingParse(op, response) ==
    CASE op = "get_pump_laser_status" -> parse_pump_laser_status_response(response)
      [] op = "get_mode_status" -> parse_mode_status_response(response)
      [] op = "get_module_status" -> parse_module_status_response(response)

\* the caller hands the response of a structured operation to its decoder,
\* as __main__ does
Parse(c) ==
    /\ thr[c].pc = "returned"
    /\ thr[c].op \in {"get_pump_laser_status", "get_mode_status", "get_module_status"}
    /\ LET r == MatchingParse(thr[c].op, BytesOf(thr[c].result))
       IN  thr' = [thr EXCEPT ![c] =
                     [@ EXCEPT !.parsed = r.status,
                               !.pc = IF r.status = "raised" THEN "raised" ELSE "parsed",
                               !.error = IF r.status = "raised" THEN "DecodeError" ELSE "none"]]
    /\ UNCHANGED <<ser, trace, device, life, concurrent, codecVars, scope>>

\* the record of transport calls without those of a caller who has left
\* its invocation
Forget(log, c) == SelectSeq(log, LAMBDA e : e.by # c)

\* the caller goes on after a result, or after an exception it caught
Resume(c) ==
    /\ thr[c].pc \in {"returned", "parsed", "raised"}
    /\ thr' = [thr EXCEPT ![c] = IdleThread]
    /\ trace' = Forget(trace, c)
    /\ UNCHANGED <<ser, device, life, concurrent, codecVars, scope>>

\* with EDFACommand(...) as edfa: __enter__ returns self
Enter ==
    /\ life.at = "constructed"
    /\ life.calls = 0
    /\ life.closes = 0
    /\ life' = [life EXCEPT !.at = "inside"]
    /\ UNCHANGED <<ser, trace, device, thr, concurrent, codecVars, scope>>

\* the with block ends normally: __exit__(None, None, None)
ExitNormally ==
    /\ life.at = "inside"
    /\ \A c \in Callers : thr[c].pc = "idle"
    /\ ser' = exit(ser, FALSE)
    /\ life' = [life EXCEPT !.at = "exited", !.closes = @ + 1]
    /\ UNCHANGED <<trace, device, thr, concurrent, codecVars, scope>>

\* an exchange or a decoder raised in the owner's thread and the exception
\* leaves the with block: __exit__(exc_type, exc_val, exc_tb)
ExitRaised ==
    /\ life.at = "inside"
    /\ thr[1].pc = "raised"
    /\ thr[2].pc # "written"
    /\ ser' = exit(ser, TRUE)
    /\ life' = [life EXCEPT !.at = "exited", !.raised = TRUE, !.closes = @ + 1]
    /\ thr' = [thr EXCEPT ![1] = IdleThread]
    /\ trace' = Forget(trace, 1)
    /\ UNCHANGED <<device, concurrent, codecVars, scope>>

\* an explicit close() by the owner between its invocations: inside, after
\* or without a with block
Close ==
    /\ life.at \in {"constructed", "inside", "exited"}
    /\ life.closes < MaxCloses
    /\ \A c \in Callers : thr[c].pc = "idle"
    /\ ser' = close(ser)
    /\ life' = [life EXCEPT !.closes = @ + 1]
    /\ UNCHANGED <<trace, device, thr, concurrent, codecVars, scope>>

NextIO ==
    \/ \E c \in Callers : SendCommand(c)
    \/ \E c \in Callers : GetModuleStatus(c)
    \/ \E c \in Callers : GetModeStatus(c)
    \/ \E c \in Callers : GetPumpLaserStatus(c)
    \/ \E c \in Callers : SendRawCommand(c)
    \/ \E c \in Callers : SendGuiRawCommand(c)
    \/ \E c \in Callers : Read(c)
    \/ \E c \in Callers : Parse(c)
    \/ \E c \in Callers : Resume(c)
    \/ DeviceAnswer
    \/ Enter
    \/ ExitNormally
    \/ ExitRaised
    \/ Close

SpecIO == InitIO /\ [][NextIO]_vars

\* threads that call send_command through the structured operations
NextConcurrent ==
    \/ \E c \in Callers : GetModuleStatus(c)
    \/ \E c \in Callers : GetModeStatus(c)
    \/ \E c \in Callers : Read(c)
    \/ \E c \in Callers : Resume(c)
    \/ DeviceAnswer

SpecConcurrent == InitConcurrent /\ [][NextConcurrent]_vars

(***************************************************************************)
(* The oscilloscope edge-capture loop (src/test.py, src/matplot.py,        *)
(* src/not important/csv.py).  Voltages are in tenths of a volt.           *)
(***************************************************************************)
\* most samples the loop looks at, and most samples of one waveform batch
MaxSamples == 5
MaxBatch == 2

\* 2.0 V and 0.2 V
RisingLevel == 20
FallingLevel == 2

\* the scripts, and the value each gives triggered before the loop
Variants == {"test.py", "matplot.py", "csv.py"}
InitiallyTriggered(variant) == variant = "matplot.py"

\* sample voltages: 0 V, 0.2 V, 1.0 V, 2.0 V
Levels == {0, 2, 10, 20}
Batches == SeqsUpTo(Levels, MaxBatch) \ {<<>>}

\* the body of "for v in voltages"; the break leaves prev_v as it was
for_body(s, v) ==
    LET triggered == s.triggered \/ (s.prev_v < RisingLevel /\ v >= RisingLevel)
        stop == triggered /\ s.prev_v > FallingLevel /\ v <= FallingLevel
    IN  [s EXCEPT !.triggered = triggered,
                  !.recording = IF triggered THEN Append(@, v) ELSE @,
                  !.falling_edge_detected = stop,
                  !.prev_v = IF stop THEN @ ELSE v,
                  !.seen = Append(@, v)]

\* "for v in voltages" from sample i on, up to its break
RECURSIVE for_voltages(_, _, _)
for_voltages(s, voltages, i) ==
    IF s.falling_edge_detected \/ i > Len(voltages) THEN s
    ELSE for_voltages(for_body(s, voltages[i]), voltages, i + 1)

\* the variables before the loop
InitScope ==
    /\ \E variant \in Variants :
         scope = [variant |-> variant, at |-> "loop",
                  triggered |-> InitiallyTriggered(variant),
                  falling_edge_detected |-> FALSE, prev_v |-> 0,
                  recording |-> <<>>, seen |-> <<>>]
    /\ DEVICE_ADDRESS = <<0, 3>>
    /\ pc = "idle"
    /\ call = NoCall
    /\ ret = NoRet
    /\ NoSession

\* one turn of "while not falling_edge_detected": a waveform batch is read
\* and its samples are gone through
CaptureBatch ==
    /\ scope.at = "loop"
    /\ ~scope.falling_edge_detected
    /\ \E voltages \in Batches :
         /\ Len(scope.seen) + Len(voltages) <= MaxSamples
         /\ scope' = for_voltages(scope, voltages, 1)
    /\ UNCHANGED <<codecVars, ioVars>>

\* the loop is left: scope.write("ACQUIRE:STATE OFF")
StopAcquisition ==
    /\ scope.at = "loop"
    /\ scope.falling_edge_detected
    /\ scope' = [scope EXCEPT !.at = "stopped"]
    /\ UNCHANGED <<codecVars, ioVars>>

NextScope ==
    \/ CaptureBatch
    \/ StopAcquisition

SpecScope == InitScope /\ [][NextScope]_vars

(***************************************************************************)
(* Properties.                                                             *)
(***************************************************************************)
\* the bytes of a buffer before its last two, and its last two
Body(buf) == SubSeq(buf, 1, Len(buf) - 2)
Trailer(buf) == SubSeq(buf, Len(buf) - 1, Len(buf))

\* A bit-wise CRC-16/CCITT-FALSE: register seeded with 0xFFFF, each byte
\* xored into the top eight bits, then eight times: shift left, and xor
\* 0x1021 in when the bit shifted out was set.  No reflection, no final xor.
RECURSIVE RefCrcBits(_, _)
RefCrcBits(reg, n) ==
    IF n = 0 THEN reg
    ELSE IF reg >= 32768
         THEN RefCrcBits(Xor((reg * 2) % 65536, 4129), n - 1)
         ELSE RefCrcBits(reg * 2, n - 1)

RECURSIVE RefCrc(_, _)
RefCrc(data, n) ==
    IF n = 0 THEN 65535
    ELSE RefCrcBits(Xor(RefCrc(data, n - 1), data[n] * 256), 8)

CcittFalse(data) == RefCrc(data, Len(data))

\* C1: every frame _build_frame returns is SYNC(0x68), address[0],
\* address[1], SYNC(0x68), command id, the arguments in order, then the
\* big-endian CRC-16/CCITT-FALSE of all bytes before it; recomputing crc16
\* over frame[:-2] gives the trailing two bytes.
C1_FrameLayout ==
    call.op = "_build_frame" =>
        LET frame == ret.fields
            n == Len(call.args)
        IN  /\ Len(frame) >= 7
            /\ Body(frame) = <<104, DEVICE_ADDRESS[1], DEVICE_ADDRESS[2], 104, call.cmd_id>>
                             \o call.args
            /\ \A k \in 1..n : frame[5 + k] = call.args[k]
            /\ Trailer(frame) = <<CcittFalse(Body(frame)) \div 256,
                                  CcittFalse(Body(frame)) % 256>>
            /\ crc16(PySlice(frame, 0, -2)) = frame[Len(frame) - 1] * 256 + frame[Len(frame)]

\* C1 witness: a frame with arguments whose two CRC bytes differ was built
C1_Witness ==
    /\ call.op = "_build_frame"
    /\ Len(call.args) >= 2
    /\ Len(ret.fields) = 7 + Len(call.args)
    /\ ret.fields[Len(ret.fields) - 1] # ret.fields[Len(ret.fields)]

\* C2: crc16 is CRC-16/CCITT-FALSE: for every byte sequence, the empty one
\* included, it returns the 16-bit value of the bit-wise computation
\* (polynomial 0x1021, seed 0xFFFF, MSB first, no reflection, no final xor);
\* crc16 of the empty sequence is 0xFFFF and of "123456789" is 0x29B1.
C2_CrcIsCcittFalse ==
    call.op = "crc16" =>
        /\ ret.status = "ok"
        /\ ret.fields[1] \in 0..65535
        /\ ret.fields[1] = CcittFalse(call.response)
        /\ call.response = <<>> => ret.fields[1] = 65535
        /\ call.response = CheckString => ret.fields[1] = 10673

\* C2 witness: crc16 was applied to the check string and gave 0x29B1
C2_Witness ==
    /\ call.op = "crc16"
    /\ call.response = CheckString
    /\ ret.fields = <<10673>>

\* C3 as stated: every frame _build_frame returns for an argument list args
\* has length 6 + len(args) + 2.
C3_LengthSixPlusArgsPlusTwo ==
    call.op = "_build_frame" => Len(ret.fields) = 6 + Len(call.args) + 2

\* C3 amended: every frame _build_frame returns for an argument list args
\* has length 5 + len(args) + 2: two sync bytes, two address bytes, the
\* command id, the arguments and two CRC bytes.
C3_FrameLength ==
    call.op = "_build_frame" => Len(ret.fields) = 5 + Len(call.args) + 2

\* C3 witness: a frame for three arguments was built, ten bytes long
C3_Witness ==
    /\ call.op = "_build_frame"
    /\ Len(call.args) = 3
    /\ Len(ret.fields) = 10

\* the six response decoders
Decoders ==
    {"parse_pump_laser_status_response", "parse_mode_status_response",
     "parse_module_status_response", "parse_power_response",
     "parse_alarm_status_response", "parse_voa_mode_response"}

\* the payload of a response: the bytes after its seven header bytes and
\* before its two CRC bytes
Payload(buf) == SubSeq(buf, 8, Len(buf) - 2)

\* the trailing two bytes are the big-endian CRC-16/CCITT-FALSE of the rest
CrcSound(buf) ==
    /\ Len(buf) >= 2
    /\ Trailer(buf) = <<CcittFalse(Body(buf)) \div 256, CcittFalse(Body(buf)) % 256>>

\* a big-endian two's-complement 16-bit value
Signed16(hi, lo) == IF hi >= 128 THEN hi * 256 + lo - 65536 ELSE hi * 256 + lo

\* C4 as stated: a response whose trailing two bytes are not the big-endian
\* crc16 of the bytes before them is never decoded: every decoder reports a
\* failure for it and produces no field.
C4_CrcMismatchNeverDecoded ==
    (call.op \in Decoders /\ ~CrcSound(call.response)) =>
        (ret.status # "ok" /\ ret.fields = <<>>)

\* the smallest payload each decoder needs
MinPayload(op) ==
    CASE op = "parse_pump_laser_status_response" -> 24
      [] op = "parse_mode_status_response" -> 2
      [] op = "parse_module_status_response" -> 1
      [] op = "parse_power_response" -> 2
      [] op = "parse_alarm_status_response" -> 8
      [] op = "parse_voa_mode_response" -> 3

\* C5: for each decoder, a response of any length, zero included, whose
\* payload is shorter than the decoder's minimum (pump laser 24, mode 2,
\* module status 1, power 2, alarm 8, VOA 3) ends in a too-short failure
\* with no field decoded, and never in an exception.
C5_ShortPayloadFails ==
    (call.op \in Decoders /\ Len(Payload(call.response)) < MinPayload(call.op)) =>
        /\ ret.status \in {"too_short", "not_enough"}
        /\ ret.fields = <<>>

\* C5 witness: the alarm decoder refused a response with a 7-byte payload
C5_Witness ==
    /\ call.op = "parse_alarm_status_response"
    /\ Len(call.response) = 16
    /\ Len(Payload(call.response)) = 7
    /\ ret.status = "too_short"

\* the record width of the repeated-record decoders
RecordWidth(op) ==
    CASE op = "parse_power_response" -> 2
      [] op = "parse_alarm_status_response" -> 8
      [] op = "parse_voa_mode_response" -> 3

\* C6 as stated: the power, alarm and VOA decoders decode a payload only
\* when its length is a multiple of the record width (2, 8, 3); a payload
\* of any other length is rejected and no record of it is decoded.
C6_MisalignedPayloadRejected ==
    (/\ call.op \in {"parse_power_response", "parse_alarm_status_response",
                     "parse_voa_mode_response"}
     /\ Len(Payload(call.response)) % RecordWidth(call.op) # 0) =>
        (ret.status # "ok" /\ ret.fields = <<>>)

\* C7 as stated: the pump laser decoder never ends by an exception; for
\* every response whose payload holds at least 24 bytes it decodes exactly
\* 11 fields (8 signed 16-bit, one unsigned 32-bit, 2 signed 16-bit, all
\* big-endian, from the first 24 payload bytes), and for every other
\* response it reports a failure with no field.
C7_PumpLaserAllOrNothing ==
    call.op = "parse_pump_laser_status_response" =>
        LET data == Payload(call.response) IN
        /\ ret.status # "raised"
        /\ Len(data) >= 24 =>
             /\ ret.status = "ok"
             /\ Len(ret.fields) = 11
             /\ \A k \in 1..8 : ret.fields[k] = Signed16(data[2 * k - 1], data[2 * k])
             /\ ret.fields[9] = <<data[17] * 256 + data[18], data[19] * 256 + data[20]>>
             /\ ret.fields[10] = Signed16(data[21], data[22])
             /\ ret.fields[11] = Signed16(data[23], data[24])
        /\ Len(data) < 24 => (ret.status # "ok" /\ ret.fields = <<>>)

\* the ten named operating modes
ModeNames ==
    <<"Disable", "Manual", "Constant Gain", "Constant Power", "Clamping",
      "ASE Enable Const Output Power", "ASE Enable Const Drive Current",
      "ASE Safe", "AFC Const Gain", "AFC Const Power">>

\* C8 as stated: the mode decoder takes payload byte 0 as the amplifier
\* index and payload byte 1 as the mode code; codes 1..10 give the ten named
\* modes (3 is Constant Gain), every other code gives unknown(code), never a
\* failure; payload [0x01,0x03] gives amplifier 1 / Constant Gain.
C8_ModeDecoded ==
    (call.op = "parse_mode_status_response" /\ Len(Payload(call.response)) >= 2) =>
        LET data == Payload(call.response) IN
        /\ ret.status = "ok"
        /\ Len(ret.fields) = 1
        /\ ret.fields[1].amp_index = data[1]
        /\ ret.fields[1].mode = IF data[2] \in 1..10 THEN <<ModeNames[data[2]]>>
                                ELSE <<"Unknown", data[2]>>

\* C9 as stated: the module status decoder gives one status record per
\* payload byte; in each, disabled is bit 0, APR bit 1, gain-limited bit 2,
\* power-clamping bit 3 and reserved is status >> 4.
C9_OneStatusPerPayloadByte ==
    (call.op = "parse_module_status_response" /\ Len(Payload(call.response)) >= 1) =>
        LET data == Payload(call.response) IN
        /\ ret.status = "ok"
        /\ Len(ret.fields) = Len(data)
        /\ \A k \in 1..Len(data) :
             /\ ret.fields[k].disabled = (data[k] % 2 = 1)
             /\ ret.fields[k].apr = ((data[k] \div 2) % 2 = 1)
             /\ ret.fields[k].gain_limited = ((data[k] \div 4) % 2 = 1)
             /\ ret.fields[k].power_clamping = ((data[k] \div 8) % 2 = 1)
             /\ ret.fields[k].reserved = data[k] \div 16

\* C10 as stated: the power decoder gives exactly payload_length/2 readings
\* in payload order, reading i being the big-endian signed 16-bit value at
\* payload bytes 2i..2i+1, printed as hundredths of a dBm.
C10_PowerReadings ==
    (call.op = "parse_power_response" /\ Len(Payload(call.response)) >= 2) =>
        LET data == Payload(call.response) IN
        /\ ret.status = "ok"
        /\ Len(ret.fields) = Len(data) \div 2
        /\ \A k \in 1..(Len(data) \div 2) :
             LET val == Signed16(data[2 * k - 1], data[2 * k]) IN
             /\ ret.fields[k].val = val
             /\ ret.fields[k].dbm.neg = (val < 0)
             /\ ret.fields[k].dbm.whole * 100 + ret.fields[k].dbm.cents
                  = IF val < 0 THEN 0 - val ELSE val
             /\ ret.fields[k].dbm.cents \in 0..99

\* the i-th (0-based) named alarm of a 4-byte big-endian word is bit 31 - i:
\* bit 7 - (i mod 8) of the word's byte i div 8
NamedBitSet(word, i) == (word[(i \div 8) + 1] \div Pow2(7 - (i % 8))) % 2 = 1

\* C11 as stated: the alarm decoder gives payload_length/8 (current, latched)
\* pairs of big-endian 32-bit words; in each word the i-th of the 22 named
\* alarms is reported exactly when bit 31 - i is set and bits 9..0 report
\* nothing; an 8-byte payload with current = 0x80000000 and latched = 0
\* reports the first named alarm alone and no latched alarm.
C11_AlarmPairsDecoded ==
    (call.op = "parse_alarm_status_response" /\ Len(Payload(call.response)) >= 8) =>
        LET data == Payload(call.response)
            Names(word) == {alarm_names[i + 1] : i \in {j \in 0..21 : NamedBitSet(word, j)}}
            Reported(lines) == {lines[k] : k \in 1..Len(lines)}
        IN  /\ ret.status = "ok"
            /\ Len(ret.fields) = Len(data) \div 8
            /\ \A a \in 1..(Len(data) \div 8) :
                 /\ Reported(ret.fields[a].current) = Names(SubSeq(data, 8 * a - 7, 8 * a - 4))
                 /\ Reported(ret.fields[a].latched) = Names(SubSeq(data, 8 * a - 3, 8 * a))
                 /\ Len(ret.fields[a].current) = Cardinality(Reported(ret.fields[a].current))
                 /\ Len(ret.fields[a].latched) = Cardinality(Reported(ret.fields[a].latched))
            /\ data = <<128, 0, 0, 0, 0, 0, 0, 0>> =>
                 ret.fields = <<[current |-> <<"LOS-1">>, latched |-> <<>>]>>

\* C18 as stated: with payload = response[7 : len-2], every response whose
\* payload has at least the decoder's minimum length (mode 2, module status
\* 1, power 2, alarm 8, VOA 3, pump laser 24) is decoded; none is rejected
\* as too short.
C18_MinimumPayloadIsDecoded ==
    (call.op \in Decoders /\ Len(Payload(call.response)) >= MinPayload(call.op)) =>
        ret.status \notin {"too_short", "not_enough", "no_amps"}

(***************************************************************************)
(* Properties of the serial session.                                       *)
(***************************************************************************)
\* the transport calls of caller c's invocation, and their kinds in order
CallsOf(c) == SelectSeq(trace, LAMBDA e : e.by = c)
KindsOf(c) == [i \in 1..Len(CallsOf(c)) |-> CallsOf(c)[i].kind]
\* caller c's thread has made its one read
HasRead(c) == thr[c].pc \in {"returned", "parsed"} \/ (thr[c].pc = "raised" /\ thr[c].error # "ValueError")

\* C12: in send_command a read of zero bytes ends in TimeoutError and hands
\* no buffer back; a read of one or more bytes is handed back unchanged,
\* valid frame or not; so the TimeoutError tells exactly the empty reads.
C12_TimeoutOrUnchangedBuffer ==
    \A c \in Callers :
        (thr[c].via = "send_command" /\ HasRead(c) /\ thr[c].parsed = "none") =>
            LET got == CallsOf(c)[Len(CallsOf(c))].data
            IN  /\ CallsOf(c)[Len(CallsOf(c))].kind = "read"
                /\ (got = <<>>) <=> (thr[c].error = "TimeoutError")
                /\ got = <<>> => (thr[c].pc = "raised" /\ thr[c].result = <<>>)
                /\ got # <<>> => (thr[c].pc = "returned" /\ BytesOf(thr[c].result) = got)

\* C12 witness: a send_command whose read gave nothing ended in TimeoutError
\* while the device still had the request to answer
C12_Witness ==
    /\ thr[1].via = "send_command"
    /\ thr[1].error = "TimeoutError"
    /\ device # <<>>
    /\ ser.in_waiting = <<>>

\* C13: an invocation of send_command or send_raw_command makes one write,
\* of its frame, and then one read, and no other transport call, also when
\* the read gives zero bytes or bytes that are no valid frame.
C13_OneWriteThenOneRead ==
    \A c \in Callers :
        thr[c].via \in {"send_command", "send_raw_command"} =>
            /\ thr[c].pc = "written" =>
                 /\ KindsOf(c) = <<"write">>
                 /\ CallsOf(c)[1].data = thr[c].frame
            /\ HasRead(c) =>
                 /\ KindsOf(c) = <<"write", "read">>
                 /\ CallsOf(c)[1].data = thr[c].frame
            /\ thr[c].pc \in {"written", "returned", "parsed", "raised"}

\* C13 witness: the second invocation of a session, a send_raw_command, has
\* made its write and a read of zero bytes and has returned them
C13_Witness ==
    /\ thr[1].via = "send_raw_command"
    /\ thr[1].pc = "returned"
    /\ thr[1].result = <<>>
    /\ KindsOf(1) = <<"write", "read">>
    /\ life.calls = 2

\* the command id and the argument bytes each structured operation is to send
CatalogId(op) ==
    CASE op = "get_module_status" -> 48
      [] op = "get_mode_status" -> 49
      [] op = "get_pump_laser_status" -> 58
CatalogArgs(op, a) ==
    IF op = "get_pump_laser_status" THEN <<0, a[1], a[2], a[3]>> ELSE <<a[1], a[2]>>
StructuredOps == {"get_module_status", "get_mode_status", "get_pump_laser_status"}

\* C14: the frame a structured operation writes is 0x68, the two address
\* bytes given at construction, 0x68, the operation's command id (0x30,
\* 0x31, 0x3A), the caller's arguments in order (after a 0x00 for the pump
\* laser) and the CRC; the address of the controller, and of every frame
\* send_command writes, stays the one given at construction.
C14_StructuredFrames ==
    /\ life.at # "none" => DEVICE_ADDRESS = life.given
    /\ \A c \in Callers :
         /\ (thr[c].via = "send_command" /\ thr[c].pc # "idle") =>
              /\ <<thr[c].frame[2], thr[c].frame[3]>> = life.given
              /\ CallsOf(c)[1] = [by |-> c, kind |-> "write", data |-> thr[c].frame]
         /\ (thr[c].op \in StructuredOps /\ thr[c].pc # "idle") =>
              LET body == <<104, life.given[1], life.given[2], 104, CatalogId(thr[c].op)>>
                          \o CatalogArgs(thr[c].op, thr[c].args)
              IN  thr[c].frame = body \o <<CcittFalse(body) \div 256, CcittFalse(body) % 256>>

\* C14 witness: the second operation of a controller constructed with the
\* address FF 68 is a get_module_status(2, 255) that has written its frame
C14_Witness ==
    /\ life.given = <<255, 104>>
    /\ life.calls = 2
    /\ thr[1].op = "get_module_status"
    /\ thr[1].args = <<2, 255>>
    /\ thr[1].pc = "written"
    /\ Len(thr[1].frame) = 9

\* C15: once the with block has been left, normally or by an exception, the
\* port is closed; after any close() the port is closed and stays closed,
\* a further close() changing nothing.
C15_PortReleased ==
    /\ life.at = "exited" => ~ser.is_open
    /\ life.closes >= 1 => ~ser.is_open

\* C15 witness: the with block was left by an exception and close() was
\* called again afterwards
C15_Witness ==
    /\ life.at = "exited"
    /\ life.raised
    /\ life.closes >= 2
    /\ ~ser.is_open

TableBytes(key) ==
    CASE key = <<"get_mode", 1, 1>> -> <<104, 0, 5, 104, 49, 0, 95, 1, 1, 146, 22>>
      [] key = <<"get_module_status", 1, 1>> -> <<104, 0, 5, 104, 48, 0, 96, 1, 1, 146, 22>>
      [] key = <<"get_module_status", 0, 1>> -> <<104, 0, 5, 104, 48, 0, 109, 0, 1, 158, 22>>
      [] key = <<"get_module_status", 2, 1>> -> <<104, 0, 5, 104, 48, 0, 111, 2, 1, 162, 22>>
      [] key = <<"get_module_status", 0, 2>> -> <<104, 0, 5, 104, 48, 0, 113, 0, 2, 163, 22>>
      [] key = <<"get_module_status", 1, 2>> -> <<104, 0, 5, 104, 48, 0, 114, 1, 2, 165, 22>>
      [] key = <<"get_module_status", 2, 2>> -> <<104, 0, 5, 104, 48, 0, 115, 2, 2, 167, 22>>
      [] key = <<"get_pump_laser_status", 1, 1>> -> <<104, 0, 5, 104, 58, 0, 161, 1, 1, 221, 22>>
      [] key = <<"get_pump_laser_status", 1, 2>> -> <<104, 0, 5, 104, 58, 0, 162, 1, 2, 223, 22>>
      [] key = <<"get_pump_laser_status", 1, 3>> -> <<104, 0, 5, 104, 58, 0, 163, 1, 3, 225, 22>>
      [] key = <<"get_pump_laser_status", 1, 4>> -> <<104, 0, 5, 104, 58, 0, 156, 1, 4, 219, 22>>
      [] key = <<"get_pump_laser_status", 1, 5>> -> <<104, 0, 5, 104, 58, 0, 157, 1, 5, 221, 22>>
      [] key = <<"get_pump_laser_status", 1, 6>> -> <<104, 0, 5, 104, 58, 0, 158, 1, 6, 223, 22>>
      [] key = <<"get_alarm_status", 1, 0>> -> <<104, 0, 4, 104, 64, 0, 167, 1, 232, 22>>
      [] key = <<"get_alarm_status", 0, 0>> -> <<104, 0, 4, 104, 64, 0, 169, 0, 233, 22>>
      [] key = <<"get_voa_mode", 0, 0>> -> <<104, 0, 4, 104, 98, 0, 171, 0, 13, 22>>
      [] key = <<"get_voa_mode", 1, 0>> -> <<104, 0, 4, 104, 98, 0, 172, 1, 15, 22>>
TableKeys == {e.key : e \in gui_commands}

\* C16: send_gui_raw_command with a key the table lacks raises ValueError
\* and makes no transport call; with a key of the table it writes the bytes
\* of that entry (every entry's hex text being the bytes listed above).
C16_UnknownKeyTouchesNothing ==
    \A c \in Callers :
        thr[c].op = "send_gui_raw_command" =>
            IF thr[c].args \in TableKeys
            THEN /\ thr[c].pc \in {"written", "returned"}
                 /\ CallsOf(c)[1] = [by |-> c, kind |-> "write", data |-> TableBytes(thr[c].args)]
                 /\ \A e \in gui_commands : raw_frame(e.hexstr) = TableBytes(e.key)
            ELSE /\ thr[c].pc = "raised"
                 /\ thr[c].error = "ValueError"
                 /\ CallsOf(c) = <<>>
                 /\ Len(trace) = thr[c].mark

\* C16 witness: a key the table lacks was refused while bytes of an earlier
\* exchange were waiting in the port, and they are still there
C16_Witness ==
    /\ thr[1].op = "send_gui_raw_command"
    /\ thr[1].error = "ValueError"
    /\ trace = <<>>
    /\ ser.in_waiting # <<>>

\* the default read size of a structured operation, and the least response
\* its decoder accepts
DefaultSize(op) ==
    CASE op = "get_module_status" -> ModuleStatusDefaultSize
      [] op = "get_mode_status" -> ModeDefaultSize
      [] op = "get_pump_laser_status" -> PumpDefaultSize
MinResponse(op) ==
    CASE op = "get_module_status" -> ModuleStatusMinResponse
      [] op = "get_mode_status" -> ModeMinResponse
      [] op = "get_pump_laser_status" -> PumpMinResponse

\* C17 as stated: the default read size of each structured operation is at
\* least the minimum response length of its decoder, so when the device has
\* answered in full before the read, the decoder handed the response does
\* not find it too short.
C17_DefaultReadLongEnough ==
    \A c \in Callers :
        (thr[c].op \in StructuredOps /\ thr[c].parsed # "none" /\ thr[c].full
         /\ thr[c].size = DefaultSize(thr[c].op)) =>
            /\ DefaultSize(thr[c].op) >= MinResponse(thr[c].op)
            /\ thr[c].parsed # "too_short"

\* C19: with one caller the transport calls are write, read, write, read:
\* a write is followed by its own invocation's read before any other
\* write, at most one request being outstanding; with two callers nothing
\* keeps a second request from being written before the first is read.
C19_SingleCallerAlternates ==
    ~concurrent =>
        /\ CallsOf(2) = <<>>
        /\ KindsOf(1) \in {<<>>, <<"write">>, <<"write", "read">>}
        /\ Len(device) <= life.calls

\* C19 witness: two callers' requests were both written before either read,
\* and caller 2 has been handed bytes that answer caller 1's request
C19_Witness ==
    /\ concurrent
    /\ Len(trace) >= 3
    /\ trace[1].kind = "write" /\ trace[1].by = 1
    /\ trace[2].kind = "write" /\ trace[2].by = 2
    /\ trace[3].kind = "read" /\ trace[3].by = 2
    /\ thr[2].pc = "returned"
    /\ \E i \in 1..Len(thr[2].result) : thr[2].result[i].for = 1
    /\ thr[1].pc = "written"

(***************************************************************************)
(* Properties of the edge-capture loop.                                    *)
(***************************************************************************)
\* the sample before the k-th the loop looked at (0 before the first), and
\* the crossings among the samples looked at
Previous(k) == IF k = 1 THEN 0 ELSE scope.seen[k - 1]
RisingAt(k) == Previous(k) < 20 /\ scope.seen[k] >= 20
FallingAt(k) == Previous(k) > 2 /\ scope.seen[k] <= 2
Least(S) == CHOOSE k \in S : \A j \in S : k <= j

\* C20 as stated: in every variant of the loop nothing is recorded before a
\* rising crossing (previous < 2.0 V, current >= 2.0 V); the recording
\* starts with that crossing's sample and holds every sample from it on;
\* the loop stops at the first later sample with previous > 0.2 V and
\* current <= 0.2 V, the last one recorded; the previous sample is carried
\* from one batch into the next.
C20_RecordFromRisingToFalling ==
    scope.variant \in Variants =>
        LET n == Len(scope.seen)
            rising == {k \in 1..n : RisingAt(k)}
        IN  IF rising = {}
            THEN scope.recording = <<>> /\ ~scope.falling_edge_detected
            ELSE LET r == Least(rising)
                     falling == {k \in (r + 1)..n : FallingAt(k)}
                 IN  /\ scope.recording = SubSeq(scope.seen, r, n)
                     /\ scope.recording[1] = scope.seen[r]
                     /\ scope.falling_edge_detected <=> falling # {}
                     /\ falling # {} => Least(falling) = n

====
